---- MODULE Spec2Model ----
(***************************************************************************)
(* Model of the ooi compute controller (ooi/api/compute.py) and of the     *)
(* OpenStack helper it drives (ooi/api/helpers.py).                        *)
(*                                                                         *)
(* One worker handles one request at a time (spec section 5): it receives  *)
(* a request, runs the handler step by step, and replies.  Each call to    *)
(* the backend (nova) is one step whose response is chosen by the backend. *)
(***************************************************************************)
EXTENDS Integers, Sequences, FiniteSets, TLC

VARIABLES
    op,      \* the handler running: "idle", "create", "run_action", ...
    pc,      \* the position inside the handler
    req,     \* the request being handled
    obj,     \* local `obj`: the parsed representation
    ids,     \* local `server_ids` of _delete
    taken,   \* how many of server_ids the loop of _delete has taken
    srv,     \* local `s` / `flavor` / `image` / `comp` of show
    log,     \* what the handler did so far: parse, validate, backend calls
    resp,    \* the last backend response
    result,  \* the value returned by the handler
    error    \* the exception raised by the handler

vars == <<op, pc, req, obj, ids, taken, srv, log, resp, result, error>>

(***************************************************************************)
(* Bounds of the model.                                                    *)
(***************************************************************************)
MaxServers == 2      \* longest server list the backend returns
MaxVolumes == 2      \* longest list of volume attachments
MaxFloatingIps == 2  \* longest list of floating ips
MaxAddrs == 2        \* longest list of addresses of a server

(***************************************************************************)
(* Python / JSON values.  A dict keeps its items in insertion order.       *)
(***************************************************************************)
JNull == [tag |-> "null"]
JStr(s) == [tag |-> "str", s |-> s]
JNum(n) == [tag |-> "num", n |-> n]
JList(e) == [tag |-> "list", elems |-> e]
JDict(i) == [tag |-> "dict", items |-> i]
Item(k, v) == [k |-> k, v |-> v]
\* a response body that is not JSON at all
Undecodable == [tag |-> "undecodable"]

IsDict(j) == j.tag = "dict"
HasKey(d, k) == \E n \in 1..Len(d.items) : d.items[n].k = k
\* d[k], for a key that is there
GetItem(d, k) == d.items[CHOOSE n \in 1..Len(d.items) : d.items[n].k = k].v
\* d.get(k, default)
DictGet(d, k, default) == IF HasKey(d, k) THEN GetItem(d, k) ELSE default
\* d with d[k] = v
SetItem(d, k, v) ==
    IF HasKey(d, k)
    THEN JDict([n \in 1..Len(d.items) |->
                  IF d.items[n].k = k THEN Item(k, v) ELSE d.items[n]])
    ELSE JDict(Append(d.items, Item(k, v)))
\* Python truthiness of a JSON value
Truthy(j) ==
    CASE j.tag = "null" -> FALSE
      [] j.tag = "str"  -> j.s # ""
      [] j.tag = "list" -> Len(j.elems) > 0
      [] j.tag = "dict" -> Len(j.items) > 0
      [] OTHER -> TRUE

(***************************************************************************)
(* Exceptions.  A webob exception carries its class, the status code of    *)
(* the class and the explanation it was built with.                        *)
(***************************************************************************)
NoError == [cls |-> "", code |-> 0, explanation |-> JNull]
PyError(cls) == [cls |-> cls, code |-> 0, explanation |-> JNull]

\* the table `exceptions` of exception_from_response
exceptions ==
    (400 :> "HTTPBadRequest" @@ 401 :> "HTTPUnauthorized" @@
     403 :> "HTTPForbidden" @@ 404 :> "HTTPNotFound" @@
     405 :> "HTTPMethodNotAllowed" @@ 406 :> "HTTPNotAcceptable" @@
     409 :> "HTTPConflict" @@ 413 :> "HTTPRequestEntityTooLarge" @@
     415 :> "HTTPUnsupportedMediaType" @@ 429 :> "HTTPTooManyRequests" @@
     501 :> "HTTPNotImplemented" @@ 503 :> "HTTPServiceUnavailable")

\* the status code of a webob exception class
WebobCode(cls) ==
    IF \E c \in DOMAIN exceptions : exceptions[c] = cls
    THEN CHOOSE c \in DOMAIN exceptions : exceptions[c] = cls
    ELSE 500

\* cls(explanation=message)
WebobExc(cls, message) ==
    [cls |-> cls, code |-> WebobCode(cls), explanation |-> message]

\* response.json_body.popitem()[1].get("message") raises
MessageFails(body) ==
    \/ body.tag = "undecodable"                    \* json_body raises
    \/ ~IsDict(body)                               \* no popitem
    \/ IsDict(body) /\ Len(body.items) = 0         \* popitem of {}
    \/ IsDict(body) /\ Len(body.items) > 0
         /\ ~IsDict(body.items[Len(body.items)].v) \* no get

\* variant: the table is ignored, every fault becomes the generic error
exception_from_response_generic(response) ==
    IF MessageFails(response.body)
    THEN WebobExc("HTTPInternalServerError", JNull)
    ELSE WebobExc("HTTPInternalServerError",
                  DictGet(response.body.items[Len(response.body.items)].v,
                          "message", JNull))

\* variant: exceptions[code] with no default and no try/except
exception_from_response_strict(response) ==
    IF MessageFails(response.body) THEN PyError("AttributeError")
    ELSE IF response.status \notin DOMAIN exceptions THEN PyError("KeyError")
    ELSE WebobExc(exceptions[response.status],
                  DictGet(response.body.items[Len(response.body.items)].v,
                          "message", JNull))

exception_from_response(response) ==
    LET code == response.status
    IN IF MessageFails(response.body)
       THEN WebobExc("HTTPInternalServerError", JNull)
       ELSE LET fault == response.body.items[Len(response.body.items)].v
                message == DictGet(fault, "message", JNull)
                exc == IF code \in DOMAIN exceptions
                       THEN exceptions[code]
                       ELSE "HTTPInternalServerError"
            IN WebobExc(exc, message)

(***************************************************************************)
(* The outcome of a call: a returned value or a raised exception.          *)
(***************************************************************************)
Ret(v) == [raised |-> FALSE, value |-> v, exc |-> NoError]
Raise(e) == [raised |-> TRUE, value |-> JNull, exc |-> e]

get_from_response(response, element, default) ==
    IF response.status \in {200, 201, 202}
    THEN IF response.body.tag = "undecodable" THEN Raise(PyError("ValueError"))
         ELSE IF ~IsDict(response.body) THEN Raise(PyError("AttributeError"))
         ELSE Ret(DictGet(response.body, element, default))
    ELSE Raise(exception_from_response(response))

(***************************************************************************)
(* OpenStackHelper: the requests it builds.  A path is the sequence of its *)
(* segments; "%s" % v is Fmt(v).                                           *)
(***************************************************************************)
Fmt(v) == IF v.tag = "str" THEN v.s ELSE "None"

tenant_from_req(r) == r.tenant

_get_req(r, method, path, body) ==
    [method |-> method, path |-> path, body |-> body]

_get_index_req(r) ==
    _get_req(r, "GET", <<tenant_from_req(r), "servers">>, JNull)

_get_delete_req(r, server_id) ==
    _get_req(r, "DELETE", <<tenant_from_req(r), "servers", Fmt(server_id)>>,
             JNull)

\* the table `actions_map` of _get_run_action_req
actions_map ==
    ("stop" :> JDict(<<Item("os-stop", JNull)>>) @@
     "start" :> JDict(<<Item("os-start", JNull)>>) @@
     "restart" :> JDict(<<Item("reboot",
                               JDict(<<Item("type", JStr("SOFT"))>>))>>))

\* defined for an action of actions_map; any other raises KeyError
_get_run_action_req(r, action, server_id) ==
    _get_req(r, "POST",
             <<tenant_from_req(r), "servers", Fmt(server_id), "action">>,
             actions_map[action])

_get_server_req(r, server_id) ==
    _get_req(r, "GET", <<tenant_from_req(r), "servers", Fmt(server_id)>>,
             JNull)

_get_create_server_req(r, name, image, flavor, user_data) ==
    LET server == JDict(<<Item("name", name), Item("imageRef", image),
                          Item("flavorRef", flavor)>>)
        full == IF user_data # JNull
                THEN SetItem(server, "user_data", user_data)
                ELSE server
    IN _get_req(r, "POST", <<tenant_from_req(r), "servers">>,
                JDict(<<Item("server", full)>>))

\* the request create_server sends
create_server_req(r, name, image, flavor, user_data) ==
    _get_create_server_req(r, name, image, flavor, JNull)

_get_flavor_req(r, flavor_id) ==
    _get_req(r, "GET", <<tenant_from_req(r), "flavors", Fmt(flavor_id)>>,
             JNull)

_get_image_req(r, image_id) ==
    _get_req(r, "GET", <<tenant_from_req(r), "images", Fmt(image_id)>>, JNull)

_get_volumes_req(r, server_id) ==
    _get_req(r, "GET", <<tenant_from_req(r), "servers", Fmt(server_id),
                         "os-volume_attachments">>, JNull)

_get_floating_ips(r) ==
    _get_req(r, "GET", <<tenant_from_req(r), "os-floating-ips">>, JNull)

\* the methods class OpenStackHelper (and BaseHelper) defines
OpenStackHelperMethods ==
    {"_get_req", "get_from_response", "tenant_from_req", "_get_index_req",
     "index", "_get_delete_req", "delete", "_get_run_action_req",
     "run_action", "_get_server_req", "get_server",
     "_get_create_server_req", "create_server", "_get_flavor_req",
     "get_flavor", "_get_image_req", "get_image", "_get_volumes_req",
     "get_volumes", "_get_floating_ips", "get_floating_ips"}

(***************************************************************************)
(* The OCCI objects the controller builds.                                 *)
(***************************************************************************)
ComputeResource(title, id, cores, hostname, memory, state, mixins) ==
    [kind |-> "compute", title |-> title, id |-> id, cores |-> cores,
     hostname |-> hostname, memory |-> memory, state |-> state,
     mixins |-> mixins, links |-> <<>>]

NetworkResource(title, id) == [kind |-> "network", title |-> title, id |-> id]

StorageResource(title, id) == [kind |-> "storage", title |-> title, id |-> id]

\* a link holds its source and its target by id
StorageLink(source, target, deviceid) ==
    [kind |-> "storagelink", source |-> source.id, target |-> target.id,
     deviceid |-> deviceid, mac |-> JNull, address |-> JNull]

OSNetworkInterface(source, target, mac, address) ==
    [kind |-> "networkinterface", source |-> source.id, target |-> target.id,
     deviceid |-> JNull, mac |-> mac, address |-> address]

add_link(comp, link) == [comp EXCEPT !.links = Append(@, link)]

\* what a handler returns
NoResult == [type |-> "none", resources |-> <<>>]
Collection(resources) == [type |-> "Collection", resources |-> resources]
PyList(resources) == [type |-> "list", resources |-> resources]

\* variant: title and id taken from the wrong keys
_get_compute_resources_swapped(servers) ==
    IF ~Truthy(servers) THEN Ret(JList(<<>>))
    ELSE IF \E n \in 1..Len(servers.elems) :
                \/ ~HasKey(servers.elems[n], "name")
                \/ ~HasKey(servers.elems[n], "id")
         THEN Raise(PyError("KeyError"))
         ELSE Ret(JList([n \in 1..Len(servers.elems) |->
                  ComputeResource(GetItem(servers.elems[n], "id"),
                                  GetItem(servers.elems[n], "name"),
                                  JNull, JNull, JNull, JNull, <<>>)]))

\* variant: the resources are prepended, not appended
_get_compute_resources_reversed(servers) ==
    IF ~Truthy(servers) THEN Ret(JList(<<>>))
    ELSE IF \E n \in 1..Len(servers.elems) :
                \/ ~HasKey(servers.elems[n], "name")
                \/ ~HasKey(servers.elems[n], "id")
         THEN Raise(PyError("KeyError"))
         ELSE Ret(JList([n \in 1..Len(servers.elems) |->
                  ComputeResource(
                      GetItem(servers.elems[Len(servers.elems) + 1 - n], "name"),
                      GetItem(servers.elems[Len(servers.elems) + 1 - n], "id"),
                      JNull, JNull, JNull, JNull, <<>>)]))

_get_compute_resources(servers) ==
    IF ~Truthy(servers) THEN Ret(JList(<<>>))
    ELSE IF \E n \in 1..Len(servers.elems) :
                \/ ~HasKey(servers.elems[n], "name")
                \/ ~HasKey(servers.elems[n], "id")
         THEN Raise(PyError("KeyError"))
         ELSE Ret(JList([n \in 1..Len(servers.elems) |->
                  ComputeResource(GetItem(servers.elems[n], "name"),
                                  GetItem(servers.elems[n], "id"),
                                  JNull, JNull, JNull, JNull, <<>>)]))

FLOATING_PREFIX == "floating"

\* _create_network_link: `net` is bound by the last matching floating ip, or
\* by the else branch; with neither, reading it raises UnboundLocalError
_create_network_link(addr, comp, floating_ips) ==
    LET match == {n \in 1..Len(floating_ips) :
                     GetItem(addr, "addr") = GetItem(floating_ips[n], "ip")}
        last == CHOOSE n \in match : \A m \in match : m <= n
        mk(net) == Ret(OSNetworkInterface(comp, net,
                                          GetItem(addr, "OS-EXT-IPS-MAC:mac_addr"),
                                          GetItem(addr, "addr")))
    IN IF GetItem(addr, "OS-EXT-IPS:type") = JStr("floating")
       THEN IF match = {}
            THEN Raise(PyError("UnboundLocalError"))
            ELSE mk(NetworkResource("network",
                        JStr(FLOATING_PREFIX \o "/" \o
                             Fmt(GetItem(floating_ips[last], "pool")))))
       ELSE mk(NetworkResource("network", JStr("fixed")))

(***************************************************************************)
(* The categories the controller names, the parser and the validator.      *)
(***************************************************************************)
OS_TPL_SCHEME == "http://schemas.openstack.org/template/os#"
RES_TPL_SCHEME == "http://schemas.openstack.org/template/resource#"
USER_DATA_SCHEME == "http://schemas.openstack.org/compute/instance#"
PUBLIC_KEY_SCHEME == "http://schemas.openstack.org/instance/credentials#"

\* the terms of compute.ComputeResource.actions
ComputeActions == {"start", "stop", "restart", "suspend"}

\* the scheme descriptor of create
CreateScheme ==
    [category |-> "compute",
     mixins |-> {OS_TPL_SCHEME, RES_TPL_SCHEME},
     optional_mixins |-> {USER_DATA_SCHEME, PUBLIC_KEY_SCHEME}]

\* the scheme descriptor of run_action for stop, start and restart
ActionScheme(action) ==
    [category |-> action, mixins |-> {}, optional_mixins |-> {}]

\* parser.parse(): the representation the headers and body encode, or a
\* syntax error
parse(r) ==
    IF r.rep.wellformed
    THEN Ret([category |-> r.rep.category, schemes |-> r.rep.schemes,
              attributes |-> r.rep.attributes])
    ELSE Raise(PyError("MalformedRepresentation"))

\* validator.validate(scheme): the first violation, "" when there is none.
\* attr_fault is what the attribute checks find in the representation.
validate(o, scheme, attr_fault) ==
    IF o.category # scheme.category THEN "InvalidCategory"
    ELSE IF ~(DOMAIN o.schemes \subseteq
                  (scheme.mixins \cup scheme.optional_mixins))
    THEN "UnexpectedCategory"
    ELSE IF ~(scheme.mixins \subseteq DOMAIN o.schemes)
    THEN "MissingCategory"
    ELSE attr_fault

\* helpers.vm_state: the OCCI state of a nova status
vm_state(status) ==
    IF status = JStr("ACTIVE") THEN "active"
    ELSE IF status = JStr("SUSPENDED") THEN "suspended"
    ELSE "inactive"

OpenStackResourceTemplate(id, name, cores, memory, disk) ==
    [scheme |-> RES_TPL_SCHEME, term |-> id, title |-> name, cores |-> cores,
     memory |-> memory, disk |-> disk]

OpenStackOSTemplate(id, name) ==
    [scheme |-> OS_TPL_SCHEME, term |-> id, title |-> name, cores |-> JNull,
     memory |-> JNull, disk |-> JNull]

(***************************************************************************)
(* What the handler did: one event per parse, validate and backend call.   *)
(***************************************************************************)
NoRequest == [method |-> "", path |-> <<>>, body |-> JNull]
ParseEv == [ev |-> "parse", helper |-> "", request |-> NoRequest, status |-> 0]
ValidateEv ==
    [ev |-> "validate", helper |-> "", request |-> NoRequest, status |-> 0]
CallEv(helper, request, response) ==
    [ev |-> "call", helper |-> helper, request |-> request,
     status |-> response.status]

NoResponse == [status |-> 0, body |-> JNull]
NoObj == [category |-> "", schemes |-> <<>>, attributes |-> <<>>]
NoSrv == [s |-> JNull, flavor |-> JNull, comp |-> JNull]
NoReq ==
    [op |-> "idle", tenant |-> "", action |-> JNull, id |-> JNull,
     rep |-> [wellformed |-> FALSE, category |-> "", schemes |-> <<>>,
              attributes |-> <<>>],
     attr_fault |-> ""]

(***************************************************************************)
(* The inputs: the requests that arrive and the responses of the backend.  *)
(***************************************************************************)
SeqsUpTo(S, n) == UNION {[1..k -> S] : k \in 0..n}

Statuses == DOMAIN exceptions \cup {200, 201, 202, 204, 500, 502}

Messages == {"Instance could not be found", "Quota exceeded"}

\* a nova fault: one key naming the fault, holding its message
Fault(m) ==
    JDict(<<Item("itemNotFound",
                 JDict(<<Item("message", JStr(m)), Item("code", JStr("c"))>>))>>)

FaultBodies ==
    {Fault(m) : m \in Messages} \cup
    {Undecodable, JList(<<>>), JDict(<<>>),
     JDict(<<Item("itemNotFound", JStr("gone"))>>),
     JDict(<<Item("itemNotFound", JDict(<<Item("code", JStr("c"))>>))>>)}

Responses(payloads) == [status : Statuses, body : FaultBodies \cup payloads]

ServerIds == {"s1", "s2"}
ServerNames == {"n1", "n2"}

IndexServers ==
    {JDict(<<Item("id", JStr(i)), Item("name", JStr(n))>>) :
        i \in ServerIds, n \in ServerNames} \cup
    {JDict(<<Item("id", JStr("s1"))>>), JDict(<<Item("name", JStr("n1"))>>)}

IndexPayloads ==
    {JDict(<<Item("servers", JList(l))>>) :
        l \in SeqsUpTo(IndexServers, MaxServers)} \cup
    {JDict(<<Item("servers", JNull)>>)}

CreatePayloads ==
    {JDict(<<Item("server", JDict(<<Item("id", JStr(i)),
                                    Item("adminPass", JStr("pw"))>>))>>) :
        i \in ServerIds} \cup
    {JDict(<<Item("server", JDict(<<Item("adminPass", JStr("pw"))>>))>>),
     JDict(<<Item("server", JNull)>>)}

FixedAddr ==
    JDict(<<Item("addr", JStr("10.0.0.2")),
            Item("OS-EXT-IPS:type", JStr("fixed")),
            Item("OS-EXT-IPS-MAC:mac_addr", JStr("fa:16:3e:00:00:01"))>>)

FloatingAddr ==
    JDict(<<Item("addr", JStr("192.0.2.7")),
            Item("OS-EXT-IPS:type", JStr("floating")),
            Item("OS-EXT-IPS-MAC:mac_addr", JStr("fa:16:3e:00:00:01"))>>)

ShowServer(extra) ==
    JDict(<<Item("server",
                 JDict(<<Item("id", JStr("s1")), Item("name", JStr("n1")),
                         Item("status", JStr("ACTIVE")),
                         Item("image", JDict(<<Item("id", JStr("img1"))>>))>>
                       \o extra))>>)

FlavorRef == Item("flavor", JDict(<<Item("id", JStr("m1.small"))>>))

ServerPayloads ==
    {ShowServer(<<FlavorRef>>),
     ShowServer(<<FlavorRef, Item("addresses", JDict(<<>>))>>),
     ShowServer(<<FlavorRef,
                  Item("addresses",
                       JDict(<<Item("private", JList(<<FixedAddr>>))>>))>>),
     ShowServer(<<FlavorRef,
                  Item("addresses",
                       JDict(<<Item("private",
                                    JList(<<FixedAddr, FloatingAddr>>))>>))>>),
     ShowServer(<<>>)}

FlavorPayloads ==
    {JDict(<<Item("flavor",
                  JDict(<<Item("id", JStr("m1.small")),
                          Item("name", JStr("small")),
                          Item("vcpus", JNum(2)), Item("ram", JNum(512)),
                          Item("disk", JNum(10))>>))>>)}

ImagePayloads ==
    {JDict(<<Item("image", JDict(<<Item("id", JStr("img1")),
                                   Item("name", JStr("cirros"))>>))>>),
     JDict(<<Item("image", JDict(<<Item("id", JStr("img1"))>>))>>)}

Volumes ==
    {JDict(<<Item("volumeId", JStr(v)), Item("device", JStr("/dev/vdb"))>>) :
        v \in {"v1", "v2"}}

VolumePayloads ==
    {JDict(<<Item("volumeAttachments", JList(l))>>) :
        l \in SeqsUpTo(Volumes, MaxVolumes)}

FloatingIps ==
    {JDict(<<Item("ip", JStr(i)), Item("pool", JStr(q))>>) :
        i \in {"192.0.2.7", "192.0.2.8"}, q \in {"public", "lab"}}

FloatingIpPayloads ==
    {JDict(<<Item("floating_ips", JList(l))>>) :
        l \in SeqsUpTo(FloatingIps, MaxFloatingIps)}

Tenant == "t1"

\* what the headers and body of a create request may encode
CreateReps ==
    {[wellformed |-> TRUE, category |-> c,
      schemes |-> [s \in D |-> IF s = OS_TPL_SCHEME THEN <<"img1">>
                               ELSE IF s = RES_TPL_SCHEME THEN <<"m1.small">>
                               ELSE IF s = USER_DATA_SCHEME THEN <<"user_data">>
                               ELSE <<"other">>],
      attributes |-> [a \in A |-> IF a = "occi.core.title"
                                  THEN JStr("myvm") ELSE JStr("ud1")]] :
        c \in {"compute", "network"},
        D \in SUBSET {OS_TPL_SCHEME, RES_TPL_SCHEME, USER_DATA_SCHEME,
                      "http://example.org/other#"},
        A \in SUBSET {"occi.core.title", "org.openstack.compute.user_data"}}

\* what the headers and body of an action request may encode
ActionReps ==
    {[wellformed |-> TRUE, category |-> c, schemes |-> <<>>,
      attributes |-> <<>>] : c \in ComputeActions}

Malformed == NoReq.rep

AttrFaults == {"", "InvalidAttribute"}

Requests ==
    {[op |-> "create", tenant |-> Tenant, action |-> JNull, id |-> JNull,
      rep |-> r, attr_fault |-> f] :
        r \in CreateReps \cup {Malformed}, f \in AttrFaults} \cup
    {[op |-> "run_action", tenant |-> Tenant, action |-> a, id |-> JStr(i),
      rep |-> r, attr_fault |-> f] :
        a \in {JNull} \cup {JStr(x) : x \in ComputeActions \cup {"bogus"}},
        i \in {"s1"}, r \in ActionReps \cup {Malformed}, f \in AttrFaults} \cup
    {[op |-> o, tenant |-> Tenant, action |-> JNull, id |-> JStr(i),
      rep |-> Malformed, attr_fault |-> ""] :
        o \in {"show", "delete"}, i \in ServerIds} \cup
    {[op |-> o, tenant |-> Tenant, action |-> JNull, id |-> JNull,
      rep |-> Malformed, attr_fault |-> ""] : o \in {"index", "delete_all"}}

(***************************************************************************)
(* The worker: it takes a request, runs its handler, replies.              *)
(***************************************************************************)
Init ==
    /\ op = "idle"
    /\ pc = "idle"
    /\ req = NoReq
    /\ obj = NoObj
    /\ ids = <<>>
    /\ taken = 0
    /\ srv = NoSrv
    /\ log = <<>>
    /\ resp = NoResponse
    /\ result = NoResult
    /\ error = NoError

Receive ==
    /\ op = "idle"
    /\ \E r \in Requests :
         /\ req' = r
         /\ op' = r.op
    /\ pc' = "start"
    /\ UNCHANGED <<obj, ids, taken, srv, log, resp, result, error>>

\* the handler raised e
Fails(e) ==
    /\ error' = e
    /\ pc' = "done"
    /\ result' = NoResult

\* the handler returned v
Returns(v) ==
    /\ result' = v
    /\ pc' = "done"
    /\ error' = NoError

\* the response is rendered and the request's objects are dropped
Reply ==
    /\ pc = "done"
    /\ op' = "idle"
    /\ pc' = "idle"
    /\ req' = NoReq
    /\ obj' = NoObj
    /\ ids' = <<>>
    /\ taken' = 0
    /\ srv' = NoSrv
    /\ log' = <<>>
    /\ resp' = NoResponse
    /\ result' = NoResult
    /\ error' = NoError

(***************************************************************************)
(* Controller.index                                                        *)
(***************************************************************************)
Index ==
    /\ op = "index"
    /\ pc = "start"
    /\ \E response \in Responses(IndexPayloads) :
         LET servers == get_from_response(response, "servers", JList(<<>>))
             res == _get_compute_resources(servers.value)
         IN /\ resp' = response
            /\ log' = Append(log, CallEv("index", _get_index_req(req),
                                         response))
            /\ IF servers.raised THEN Fails(servers.exc)
               ELSE IF res.raised THEN Fails(res.exc)
               ELSE Returns(Collection(res.value.elems))
    /\ UNCHANGED <<op, req, obj, ids, taken, srv>>

(***************************************************************************)
(* Controller.create                                                       *)
(***************************************************************************)
CreateParse ==
    /\ op = "create"
    /\ pc = "start"
    /\ log' = Append(log, ParseEv)
    /\ IF parse(req).raised
       THEN /\ Fails(parse(req).exc)
            /\ obj' = obj
       ELSE /\ obj' = parse(req).value
            /\ pc' = "validate"
            /\ UNCHANGED <<result, error>>
    /\ UNCHANGED <<op, req, ids, taken, srv, resp>>

\* variant: the validator's verdict is ignored
CreateValidate_ignored ==
    /\ op = "create"
    /\ pc = "validate"
    /\ log' = Append(log, ValidateEv)
    /\ pc' = "call"
    /\ UNCHANGED <<op, req, obj, ids, taken, srv, resp, result, error>>

CreateValidate ==
    /\ op = "create"
    /\ pc = "validate"
    /\ log' = Append(log, ValidateEv)
    /\ LET v == validate(obj, CreateScheme, req.attr_fault)
       IN IF v # ""
          THEN Fails(PyError(v))
          ELSE /\ pc' = "call"
               /\ UNCHANGED <<result, error>>
    /\ UNCHANGED <<op, req, obj, ids, taken, srv, resp>>

\* attrs.get(k, default)
AttrGet(attrs, k, default) == IF k \in DOMAIN attrs THEN attrs[k] ELSE default

CreateCall ==
    /\ op = "create"
    /\ pc = "call"
    /\ LET attrs == obj.attributes
           name == AttrGet(attrs, "occi.core.title", JStr("OCCI VM"))
           image == JStr(obj.schemes[OS_TPL_SCHEME][1])
           flavor == JStr(obj.schemes[RES_TPL_SCHEME][1])
           user_data == IF USER_DATA_SCHEME \in DOMAIN obj.schemes
                        THEN AttrGet(attrs, "org.openstack.compute.user_data",
                                     JNull)
                        ELSE JNull
       IN IF ~({OS_TPL_SCHEME, RES_TPL_SCHEME} \subseteq DOMAIN obj.schemes)
          THEN /\ Fails(PyError("KeyError"))
               /\ UNCHANGED <<log, resp>>
          ELSE
          \E response \in Responses(CreatePayloads) :
            LET server == get_from_response(response, "server", JDict(<<>>))
                named == SetItem(server.value, "name", name)
                res == _get_compute_resources(JList(<<named>>))
            IN /\ resp' = response
               /\ log' = Append(log,
                     CallEv("create_server",
                            create_server_req(req, name, image, flavor,
                                              user_data),
                            response))
               /\ IF server.raised THEN Fails(server.exc)
                  ELSE IF ~IsDict(server.value) THEN Fails(PyError("TypeError"))
                  ELSE IF res.raised THEN Fails(res.exc)
                  ELSE Returns(Collection(res.value.elems))
    /\ UNCHANGED <<op, req, obj, ids, taken, srv>>

(***************************************************************************)
(* Controller.run_action                                                   *)
(***************************************************************************)
\* variant: only a missing action is refused
RunActionCheck_none_only ==
    /\ op = "run_action"
    /\ pc = "start"
    /\ IF req.action = JNull
       THEN Fails(PyError("InvalidAction"))
       ELSE /\ pc' = "parse"
            /\ UNCHANGED <<result, error>>
    /\ UNCHANGED <<op, req, obj, ids, taken, srv, log, resp>>

RunActionCheck ==
    /\ op = "run_action"
    /\ pc = "start"
    /\ LET action == req.action
           occi_actions == ComputeActions
       IN IF action = JNull \/ action.s \notin occi_actions
          THEN Fails(PyError("InvalidAction"))
          ELSE /\ pc' = "parse"
               /\ UNCHANGED <<result, error>>
    /\ UNCHANGED <<op, req, obj, ids, taken, srv, log, resp>>

RunActionParse ==
    /\ op = "run_action"
    /\ pc = "parse"
    /\ log' = Append(log, ParseEv)
    /\ IF parse(req).raised
       THEN /\ Fails(parse(req).exc)
            /\ obj' = obj
       ELSE /\ obj' = parse(req).value
            /\ pc' = "scheme"
            /\ UNCHANGED <<result, error>>
    /\ UNCHANGED <<op, req, ids, taken, srv, resp>>

\* variant: the chain has no else branch
RunActionScheme_no_else ==
    /\ op = "run_action"
    /\ pc = "scheme"
    /\ pc' = "validate"
    /\ UNCHANGED <<op, req, obj, ids, taken, srv, log, resp, result, error>>

RunActionScheme ==
    /\ op = "run_action"
    /\ pc = "scheme"
    /\ IF req.action.s \in {"stop", "start", "restart"}
       THEN /\ pc' = "validate"
            /\ UNCHANGED <<result, error>>
       ELSE Fails(PyError("NotImplemented"))
    /\ UNCHANGED <<op, req, obj, ids, taken, srv, log, resp>>

RunActionValidate ==
    /\ op = "run_action"
    /\ pc = "validate"
    /\ log' = Append(log, ValidateEv)
    /\ LET v == validate(obj, ActionScheme(req.action.s), req.attr_fault)
       IN IF v # ""
          THEN Fails(PyError(v))
          ELSE /\ pc' = "call"
               /\ UNCHANGED <<result, error>>
    /\ UNCHANGED <<op, req, obj, ids, taken, srv, resp>>

\* os_helper.run_action(req, action, id), then return []
RunActionCall ==
    /\ op = "run_action"
    /\ pc = "call"
    /\ IF req.action.s \notin DOMAIN actions_map
       THEN /\ Fails(PyError("KeyError"))
            /\ UNCHANGED <<log, resp>>
       ELSE \E response \in Responses({}) :
              /\ resp' = response
              /\ log' = Append(log,
                    CallEv("run_action",
                           _get_run_action_req(req, req.action.s, req.id),
                           response))
              /\ IF response.status # 202
                 THEN Fails(exception_from_response(response))
                 ELSE Returns(PyList(<<>>))
    /\ UNCHANGED <<op, req, obj, ids, taken, srv>>

(***************************************************************************)
(* Controller.delete, delete_all and _delete                               *)
(***************************************************************************)
Delete ==
    /\ op = "delete"
    /\ pc = "start"
    /\ ids' = <<req.id>>
    /\ taken' = 0
    /\ pc' = "loop"
    /\ UNCHANGED <<op, req, obj, srv, log, resp, result, error>>

\* ids = [s["id"] for s in self.os_helper.index(req)]
DeleteAll ==
    /\ op = "delete_all"
    /\ pc = "start"
    /\ \E response \in Responses(IndexPayloads) :
         LET servers == get_from_response(response, "servers", JList(<<>>))
         IN /\ resp' = response
            /\ log' = Append(log, CallEv("index", _get_index_req(req),
                                         response))
            /\ IF servers.raised
               THEN Fails(servers.exc) /\ UNCHANGED <<ids, taken>>
               ELSE IF servers.value.tag # "list"
               THEN Fails(PyError("TypeError")) /\ UNCHANGED <<ids, taken>>
               ELSE IF \E n \in 1..Len(servers.value.elems) :
                          ~HasKey(servers.value.elems[n], "id")
               THEN Fails(PyError("KeyError")) /\ UNCHANGED <<ids, taken>>
               ELSE /\ ids' = [n \in 1..Len(servers.value.elems) |->
                                 GetItem(servers.value.elems[n], "id")]
                    /\ taken' = 0
                    /\ pc' = "loop"
                    /\ UNCHANGED <<result, error>>
    /\ UNCHANGED <<op, req, obj, srv>>

\* variant: every status below 300 is taken for success
DeleteNext_accepts_2xx ==
    /\ op \in {"delete", "delete_all"}
    /\ pc = "loop"
    /\ taken < Len(ids)
    /\ taken' = taken + 1
    /\ \E response \in Responses({}) :
         /\ resp' = response
         /\ log' = Append(log, CallEv("delete",
                                      _get_delete_req(req, ids[taken + 1]),
                                      response))
         /\ IF response.status >= 300
            THEN Fails(exception_from_response(response))
            ELSE UNCHANGED <<pc, result, error>>
    /\ UNCHANGED <<op, req, obj, ids, srv>>

\* variant: a failed DELETE is swallowed and the loop goes on
DeleteNext_continue ==
    /\ op \in {"delete", "delete_all"}
    /\ pc = "loop"
    /\ taken < Len(ids)
    /\ taken' = taken + 1
    /\ \E response \in Responses({}) :
         /\ resp' = response
         /\ log' = Append(log, CallEv("delete",
                                      _get_delete_req(req, ids[taken + 1]),
                                      response))
    /\ UNCHANGED <<op, pc, req, obj, ids, srv, result, error>>

\* one turn of the loop of _delete: os_helper.delete(req, server_id)
DeleteNext ==
    /\ op \in {"delete", "delete_all"}
    /\ pc = "loop"
    /\ taken < Len(ids)
    /\ taken' = taken + 1
    /\ \E response \in Responses({}) :
         /\ resp' = response
         /\ log' = Append(log, CallEv("delete",
                                      _get_delete_req(req, ids[taken + 1]),
                                      response))
         /\ IF response.status \notin {204}
            THEN Fails(exception_from_response(response))
            ELSE UNCHANGED <<pc, result, error>>
    /\ UNCHANGED <<op, req, obj, ids, srv>>

\* the loop of _delete is over: return []
DeleteReturn ==
    /\ op \in {"delete", "delete_all"}
    /\ pc = "loop"
    /\ taken = Len(ids)
    /\ Returns(PyList(<<>>))
    /\ UNCHANGED <<op, req, obj, ids, taken, srv, log, resp>>

(***************************************************************************)
(* Controller.show                                                         *)
(***************************************************************************)
\* d is a dict holding every key of keys
Holds(d, keys) == IsDict(d) /\ \A key \in keys : HasKey(d, key)

ShowGetServer ==
    /\ op = "show"
    /\ pc = "start"
    /\ \E response \in Responses(ServerPayloads) :
         LET s == get_from_response(response, "server", JDict(<<>>))
         IN /\ resp' = response
            /\ log' = Append(log, CallEv("get_server",
                                         _get_server_req(req, req.id),
                                         response))
            /\ IF s.raised
               THEN Fails(s.exc) /\ srv' = srv
               ELSE /\ srv' = [srv EXCEPT !.s = s.value]
                    /\ pc' = "flavor"
                    /\ UNCHANGED <<result, error>>
    /\ UNCHANGED <<op, req, obj, ids, taken>>

ShowGetFlavor ==
    /\ op = "show"
    /\ pc = "flavor"
    /\ IF ~(Holds(srv.s, {"flavor"})
              /\ Holds(GetItem(srv.s, "flavor"), {"id"}))
       THEN /\ Fails(PyError("KeyError"))
            /\ UNCHANGED <<srv, log, resp>>
       ELSE \E response \in Responses(FlavorPayloads) :
              LET flavor == get_from_response(response, "flavor", JDict(<<>>))
              IN /\ resp' = response
                 /\ log' = Append(log,
                       CallEv("get_flavor",
                              _get_flavor_req(req,
                                  GetItem(GetItem(srv.s, "flavor"), "id")),
                              response))
                 /\ IF flavor.raised
                    THEN Fails(flavor.exc) /\ srv' = srv
                    ELSE IF ~Holds(flavor.value,
                                   {"id", "name", "vcpus", "ram", "disk"})
                    THEN Fails(PyError("KeyError")) /\ srv' = srv
                    ELSE /\ srv' = [srv EXCEPT !.flavor = flavor.value]
                         /\ pc' = "image"
                         /\ UNCHANGED <<result, error>>
    /\ UNCHANGED <<op, req, obj, ids, taken>>

\* get_image, the two templates and the compute object
ShowGetImage ==
    /\ op = "show"
    /\ pc = "image"
    /\ IF ~(Holds(srv.s, {"image"}) /\ Holds(GetItem(srv.s, "image"), {"id"}))
       THEN /\ Fails(PyError("KeyError"))
            /\ UNCHANGED <<srv, log, resp>>
       ELSE \E response \in Responses(ImagePayloads) :
              LET image == get_from_response(response, "image", JDict(<<>>))
                  s == srv.s
                  flavor == srv.flavor
                  res_tpl == OpenStackResourceTemplate(
                                 GetItem(flavor, "id"), GetItem(flavor, "name"),
                                 GetItem(flavor, "vcpus"), GetItem(flavor, "ram"),
                                 GetItem(flavor, "disk"))
                  os_tpl == OpenStackOSTemplate(GetItem(image.value, "id"),
                                                GetItem(image.value, "name"))
              IN /\ resp' = response
                 /\ log' = Append(log,
                       CallEv("get_image",
                              _get_image_req(req,
                                  GetItem(GetItem(s, "image"), "id")),
                              response))
                 /\ IF image.raised
                    THEN Fails(image.exc) /\ srv' = srv
                    ELSE IF ~(Holds(image.value, {"id", "name"})
                                /\ Holds(s, {"name", "id", "status"}))
                    THEN Fails(PyError("KeyError")) /\ srv' = srv
                    ELSE /\ srv' = [srv EXCEPT !.comp =
                                ComputeResource(GetItem(s, "name"),
                                    GetItem(s, "id"), GetItem(flavor, "vcpus"),
                                    GetItem(s, "name"), GetItem(flavor, "ram"),
                                    vm_state(GetItem(s, "status")),
                                    <<os_tpl, res_tpl>>)]
                         /\ pc' = "links"
                         /\ UNCHANGED <<result, error>>
    /\ UNCHANGED <<op, req, obj, ids, taken>>

\* comp with one storage link per volume attachment, in order
RECURSIVE StorageLinks(_, _)
StorageLinks(comp, vols) ==
    IF vols = <<>> THEN comp
    ELSE LET v == vols[Len(vols)]
             c == StorageLinks(comp, SubSeq(vols, 1, Len(vols) - 1))
             st == StorageResource("storage", GetItem(v, "volumeId"))
         IN add_link(c, StorageLink(c, st, GetItem(v, "device")))

\* every addr of every addr_set of addresses.values(), in order
RECURSIVE AllAddrs(_)
AllAddrs(items) ==
    IF items = <<>> THEN <<>>
    ELSE items[1].v.elems \o AllAddrs(Tail(items))

\* comp with one network link per address; the first link that cannot be
\* built raises
RECURSIVE NetworkLinks(_, _, _)
NetworkLinks(comp, addrs, floating_ips) ==
    IF addrs = <<>> THEN Ret(comp)
    ELSE LET c == NetworkLinks(comp, SubSeq(addrs, 1, Len(addrs) - 1),
                               floating_ips)
             link == _create_network_link(addrs[Len(addrs)], c.value,
                                          floating_ips)
         IN IF c.raised THEN c
            ELSE IF link.raised THEN link
            ELSE Ret(add_link(c.value, link.value))

\* the storage links, the network links and the return
ShowLinks ==
    /\ op = "show"
    /\ pc = "links"
    /\ IF "get_server_volumes_link" \notin OpenStackHelperMethods
       THEN /\ Fails(PyError("AttributeError"))
            /\ UNCHANGED <<log, resp>>
       ELSE \E vresponse \in Responses(VolumePayloads),
               fresponse \in Responses(FloatingIpPayloads) :
              LET s == srv.s
                  vols == get_from_response(vresponse, "volumeAttachments",
                                            JList(<<>>))
                  vcall == CallEv("get_server_volumes_link",
                                  _get_volumes_req(req, GetItem(s, "id")),
                                  vresponse)
                  comp == StorageLinks(srv.comp, vols.value.elems)
                  addresses == DictGet(s, "addresses", JDict(<<>>))
                  floating_ips == get_from_response(fresponse, "floating_ips",
                                                    JList(<<>>))
                  fcall == CallEv("get_floating_ips", _get_floating_ips(req),
                                  fresponse)
                  linked == NetworkLinks(comp, AllAddrs(addresses.items),
                                         floating_ips.value.elems)
              IN IF vols.raised
                 THEN /\ Fails(vols.exc)
                      /\ resp' = vresponse
                      /\ log' = Append(log, vcall)
                 ELSE IF ~Truthy(addresses)
                 THEN /\ Returns(PyList(<<comp>>))
                      /\ resp' = vresponse
                      /\ log' = Append(log, vcall)
                 ELSE /\ resp' = fresponse
                      /\ log' = log \o <<vcall, fcall>>
                      /\ IF floating_ips.raised THEN Fails(floating_ips.exc)
                         ELSE IF linked.raised THEN Fails(linked.exc)
                         ELSE Returns(PyList(<<linked.value>>))
    /\ UNCHANGED <<op, req, obj, ids, taken, srv>>

Next ==
    \/ Receive
    \/ Reply
    \/ Index
    \/ CreateParse
    \/ CreateValidate
    \/ CreateCall
    \/ RunActionCheck
    \/ RunActionParse
    \/ RunActionScheme
    \/ RunActionValidate
    \/ RunActionCall
    \/ Delete
    \/ DeleteAll
    \/ DeleteNext
    \/ DeleteReturn
    \/ ShowGetServer
    \/ ShowGetFlavor
    \/ ShowGetImage
    \/ ShowLinks

Spec == Init /\ [][Next]_vars

(***************************************************************************)
(* The network links of show on their own: _create_network_link applied    *)
(* to every address of a server, as the loop at the end of show applies    *)
(* it, from the state in which the floating ips have been fetched.         *)
(***************************************************************************)
\* the servers whose addresses the loop walks
LinkServers ==
    {GetItem(ShowServer(<<FlavorRef,
                          Item("addresses",
                               JDict(<<Item("private", JList(l))>>))>>),
             "server") :
        l \in SeqsUpTo({FixedAddr, FloatingAddr}, MaxAddrs) \ {<<>>}}

\* the compute object show has built for s
LinkComp(s) ==
    ComputeResource(GetItem(s, "name"), GetItem(s, "id"), JNum(2),
                    GetItem(s, "name"), JNum(512),
                    vm_state(GetItem(s, "status")), <<>>)

LinkInit ==
    /\ op = "show"
    /\ pc = "network_links"
    /\ req \in {r \in Requests : r.op = "show"}
    /\ obj = NoObj
    /\ ids = <<>>
    /\ taken = 0
    /\ \E s \in LinkServers :
         srv = [s |-> s, flavor |-> JNull, comp |-> LinkComp(s)]
    /\ log = <<>>
    /\ resp \in [status : {200}, body : FloatingIpPayloads]
    /\ result = NoResult
    /\ error = NoError

\* for addr_set in addresses.values(): for addr in addr_set:
\*     comp.add_link(_create_network_link(addr, comp, floating_ips))
\* return [comp]
ShowNetworkLinks ==
    /\ op = "show"
    /\ pc = "network_links"
    /\ LET addresses == DictGet(srv.s, "addresses", JDict(<<>>))
           floating_ips == get_from_response(resp, "floating_ips", JList(<<>>))
           linked == NetworkLinks(srv.comp, AllAddrs(addresses.items),
                                  floating_ips.value.elems)
       IN IF floating_ips.raised THEN Fails(floating_ips.exc)
          ELSE IF linked.raised THEN Fails(linked.exc)
          ELSE Returns(PyList(<<linked.value>>))
    /\ UNCHANGED <<op, req, obj, ids, taken, srv, log, resp>>

LinkNext == ShowNetworkLinks

LinkSpec == LinkInit /\ [][LinkNext]_vars

(***************************************************************************)
(* Properties                                                              *)
(***************************************************************************)
IsCall(e) == e.ev = "call"
IsDeleteCall(e) == e.ev = "call" /\ e.helper = "delete"
Calls == SelectSeq(log, IsCall)
Done == pc = "done"
Returned == Done /\ result # NoResult
\* the last thing the handler did was a backend call
EndedOnCall == Done /\ log # <<>> /\ IsCall(log[Len(log)])

\* the title a create request asks for
RequestedTitle ==
    IF "occi.core.title" \in DOMAIN req.rep.attributes
    THEN req.rep.attributes["occi.core.title"]
    ELSE JStr("OCCI VM")

\* the backend answered the create call with a server object that has an id
BackendCreated ==
    /\ EndedOnCall
    /\ resp.status \in {200, 201, 202}
    /\ Holds(resp.body, {"server"})
    /\ Holds(GetItem(resp.body, "server"), {"id"})

\* C1: a create request that passes validation and whose backend call
\* succeeds returns a Collection of exactly one compute Resource, titled by
\* occi.core.title ("OCCI VM" when absent), with the id the backend returned.
C1_CreateReturnsServer ==
    (op = "create" /\ BackendCreated) =>
        /\ result.type = "Collection"
        /\ Len(result.resources) = 1
        /\ result.resources[1].kind = "compute"
        /\ result.resources[1].title = RequestedTitle
        /\ result.resources[1].id = GetItem(GetItem(resp.body, "server"), "id")
        /\ error = NoError

C1_Witness ==
    /\ op = "create"
    /\ BackendCreated
    /\ "occi.core.title" \notin DOMAIN req.rep.attributes
    /\ result.resources[1].title = JStr("OCCI VM")
    /\ result.resources[1].id = JStr("s2")

\* what the parser and the validator would say of the request
ParserRejects == ~req.rep.wellformed
ValidatorRejects ==
    /\ req.rep.wellformed
    /\ \/ op = "create"
          /\ validate(req.rep, CreateScheme, req.attr_fault) # ""
       \/ op = "run_action"
          /\ req.action # JNull
          /\ req.action.s \in {"stop", "start", "restart"}
          /\ validate(req.rep, ActionScheme(req.action.s), req.attr_fault) # ""
RepresentationErrors ==
    {"MalformedRepresentation", "InvalidCategory", "UnexpectedCategory",
     "MissingCategory", "InvalidAttribute"}

\* C2: in create and run_action a backend call comes only after a parse and
\* then a validate; a request the parser or the validator rejects never
\* reaches the backend and returns no result.
C2_ParseValidateBeforeBackend ==
    op \in {"create", "run_action"} =>
        /\ \A n \in 1..Len(log) :
             IsCall(log[n]) =>
                \E i, j \in 1..(n - 1) :
                    i < j /\ log[i].ev = "parse" /\ log[j].ev = "validate"
        /\ (ParserRejects \/ ValidatorRejects) =>
              Calls = <<>> /\ result = NoResult
        /\ (Done /\ error.cls \in RepresentationErrors) =>
              Calls = <<>> /\ result = NoResult

C2_Witness ==
    /\ op = "run_action"
    /\ Done
    /\ ValidatorRejects
    /\ error.cls = "InvalidCategory"
    /\ Len(log) = 2

\* the DELETE calls made so far, and the ids they name
DeleteCalls == SelectSeq(log, IsDeleteCall)
DeletedIds == [n \in 1..Len(DeleteCalls) |-> DeleteCalls[n].request.path[3]]

\* the DELETE calls follow the list of ids, one per entry, in order
DeletesInOrder ==
    /\ Len(DeleteCalls) <= Len(ids)
    /\ \A n \in 1..Len(DeleteCalls) : DeletedIds[n] = Fmt(ids[n])

\* a failed DELETE is the last thing the request does, and it is raised
DeleteFailStop ==
    \A n \in 1..Len(log) :
        (IsDeleteCall(log[n]) /\ log[n].status # 204) =>
            /\ n = Len(log)
            /\ Done
            /\ result = NoResult
            /\ error.cls \in {exceptions[c] : c \in DOMAIN exceptions}
                              \cup {"HTTPInternalServerError"}

\* C3 as stated: every server id receives at most one DELETE call, the calls
\* are in index order, and a failed DELETE ends the request with the failure.
C3_Original ==
    op \in {"delete", "delete_all"} =>
        /\ \A m, n \in 1..Len(DeleteCalls) :
              DeletedIds[m] = DeletedIds[n] => m = n
        /\ DeletesInOrder
        /\ DeleteFailStop

\* C3 amended: every entry of the list that index returned receives at most
\* one DELETE call (an id listed twice is deleted twice), in index order, and
\* a failed DELETE ends the request with the failure.
C3_DeleteNoRetry ==
    op \in {"delete", "delete_all"} =>
        /\ Len(DeleteCalls) = taken
        /\ DeletesInOrder
        /\ DeleteFailStop

C3_Witness ==
    /\ op = "delete_all"
    /\ Len(ids) = 2
    /\ ids[1] # ids[2]
    /\ taken = 1
    /\ Done
    /\ resp.status = 404
    /\ error.code = 404

\* the body is a fault: one key holding an object
IsFault(body) ==
    IsDict(body) /\ Len(body.items) = 1 /\ IsDict(body.items[1].v)
CarriesMessage(body) == IsFault(body) /\ HasKey(body.items[1].v, "message")
MessageOf(body) == GetItem(body.items[1].v, "message")

WebobClasses ==
    {exceptions[c] : c \in DOMAIN exceptions} \cup {"HTTPInternalServerError"}

\* C4: a failure response whose status is in the mapping table and whose
\* fault carries a message m becomes an error with that status and with
\* explanation m (404, "Instance could not be found" among them).
C4_FaultKeepsStatusAndMessage ==
    (EndedOnCall /\ resp.status \in DOMAIN exceptions
        /\ CarriesMessage(resp.body)) =>
        /\ error.cls = exceptions[resp.status]
        /\ error.code = resp.status
        /\ error.explanation = MessageOf(resp.body)
        /\ result = NoResult

C4_Witness ==
    /\ EndedOnCall
    /\ resp.status = 404
    /\ CarriesMessage(resp.body)
    /\ error.code = 404
    /\ error.explanation = JStr("Instance could not be found")

\* the helper that made the last call took the response for a failure
Rejected ==
    /\ EndedOnCall
    /\ LET e == log[Len(log)]
       IN CASE e.helper = "delete" -> e.status # 204
            [] e.helper = "run_action" -> e.status # 202
            [] OTHER -> e.status \notin {200, 201, 202}

\* C5: every failure response, whatever its status and body, becomes a webob
\* error; it is the generic internal server error (500) when the status is
\* not in the table or the body is not a fault.
C5_MappingTotal ==
    Rejected =>
        /\ error.cls \in WebobClasses
        /\ result = NoResult
        /\ (resp.status \notin DOMAIN exceptions \/ ~IsFault(resp.body)) =>
              error.cls = "HTTPInternalServerError" /\ error.code = 500

C5_Witness ==
    /\ Rejected
    /\ resp.status = 502
    /\ CarriesMessage(resp.body)
    /\ error.code = 500
    /\ error.explanation = MessageOf(resp.body)

\* C6: run_action with no action parameter, or with one that is no term of
\* the compute actions, fails with InvalidAction before anything is parsed
\* and without a backend call.
C6_InvalidActionFirst ==
    (op = "run_action" /\ pc # "start"
        /\ (req.action = JNull \/ req.action.s \notin ComputeActions)) =>
        /\ Done
        /\ error = PyError("InvalidAction")
        /\ log = <<>>
        /\ result = NoResult

C6_Witness ==
    /\ op = "run_action"
    /\ Done
    /\ req.action = JStr("bogus")
    /\ req.rep.wellformed
    /\ error.cls = "InvalidAction"
    /\ log = <<>>

\* the request supplies the user_data attribute
SuppliedUserData ==
    "org.openstack.compute.user_data" \in DOMAIN req.rep.attributes

\* C7: with the user_data mixin declared and the user_data attribute
\* supplied, the body of the create request holds user_data with the supplied
\* value; without the mixin the body holds no user_data.
C7_UserDataInjected ==
    (op = "create" /\ Calls # <<>>) =>
        LET server == GetItem(Calls[1].request.body, "server")
        IN /\ (USER_DATA_SCHEME \in DOMAIN req.rep.schemes /\ SuppliedUserData)
                => /\ HasKey(server, "user_data")
                   /\ GetItem(server, "user_data") =
                        req.rep.attributes["org.openstack.compute.user_data"]
           /\ (USER_DATA_SCHEME \notin DOMAIN req.rep.schemes)
                => ~HasKey(server, "user_data")

\* the handlers whose one backend call goes through get_from_response
ViaGetFromResponse == op \in {"index", "create"}

\* C8: get_from_response returns a value only for a response of code 200;
\* a response of any other code never makes the handler return a value.
C8_OnlyCode200Returns ==
    (ViaGetFromResponse /\ EndedOnCall /\ resp.status # 200) =>
        /\ ~Returned
        /\ error # NoError

\* the server list of the index response: [] when missing or null
IndexServersOf(body) ==
    IF HasKey(body, "servers") /\ GetItem(body, "servers").tag = "list"
    THEN GetItem(body, "servers").elems
    ELSE <<>>

\* C9: the resources index returns are the servers of the backend list, one
\* for one and in order, duplicates kept; an empty or missing list gives an
\* empty Collection.
C9_IndexKeepsOrder ==
    (op = "index" /\ Done) =>
        /\ Returned =>
             LET servers == IndexServersOf(resp.body)
             IN /\ result.type = "Collection"
                /\ Len(result.resources) = Len(servers)
                /\ \A n \in 1..Len(servers) :
                     /\ result.resources[n].kind = "compute"
                     /\ result.resources[n].id = GetItem(servers[n], "id")
                     /\ result.resources[n].title = GetItem(servers[n], "name")
        /\ (resp.status = 200 /\ IsDict(resp.body)
              /\ \A n \in 1..Len(IndexServersOf(resp.body)) :
                    Holds(IndexServersOf(resp.body)[n], {"id", "name"}))
             => result.type = "Collection" /\ error = NoError

C9_Witness ==
    /\ op = "index"
    /\ Returned
    /\ Len(result.resources) = 2
    /\ result.resources[1] = result.resources[2]
    /\ result.resources[1].id = JStr("s2")

\* every backend call of the request was answered with 200
AllCallsSucceeded == \A n \in 1..Len(log) : IsCall(log[n]) => log[n].status = 200

\* C10: show, when its backend calls succeed, returns one compute Resource
\* whose links are the storage links followed by the network links, each
\* with the resource as source and its target held by id.
C10_ShowReturnsLinks ==
    (op = "show" /\ Done /\ AllCallsSucceeded /\ srv.comp # JNull) =>
        /\ result.type = "list"
        /\ Len(result.resources) = 1
        /\ result.resources[1].kind = "compute"
        /\ result.resources[1].id = GetItem(srv.s, "id")
        /\ LET links == result.resources[1].links
           IN /\ \A n \in 1..Len(links) :
                   links[n].source = GetItem(srv.s, "id")
              /\ \A m, n \in 1..Len(links) :
                   (links[m].kind = "networkinterface"
                      /\ links[n].kind = "storagelink") => n < m

\* the error a rejected response becomes, stated from the response alone
ErrorMatches(response) ==
    /\ error.cls \in WebobClasses
    /\ error.code =
         IF response.status \in DOMAIN exceptions /\ IsFault(response.body)
         THEN response.status ELSE 500
    /\ CarriesMessage(response.body) =>
         error.explanation = MessageOf(response.body)

IsRunActionCall(e) == e.ev = "call" /\ e.helper = "run_action"

\* C11: the helper's delete goes on exactly on status 204 and its run_action
\* exactly on 202; any other status, other 2xx included, raises the error
\* built from the response, so delete and run_action return [] only after
\* the backend reported ok.
C11_SuccessOnlyOnOkStatus ==
    /\ op \in {"delete", "delete_all"} =>
         /\ \A n \in 1..Len(log) :
              IsDeleteCall(log[n]) =>
                 IF log[n].status = 204
                 THEN n = Len(log) => error = NoError
                 ELSE n = Len(log) /\ Done /\ ~Returned /\ ErrorMatches(resp)
         /\ Returned =>
              /\ result = PyList(<<>>)
              /\ Len(DeleteCalls) = Len(ids)
              /\ \A n \in 1..Len(DeleteCalls) : DeleteCalls[n].status = 204
    /\ op = "run_action" =>
         /\ \A n \in 1..Len(log) :
              IsRunActionCall(log[n]) =>
                 /\ n = Len(log)
                 /\ Done
                 /\ IF log[n].status = 202
                    THEN result = PyList(<<>>) /\ error = NoError
                    ELSE ~Returned /\ ErrorMatches(resp)
         /\ Returned =>
              /\ result = PyList(<<>>)
              /\ EndedOnCall
              /\ IsRunActionCall(log[Len(log)])
              /\ resp.status = 202

C11_Witness ==
    /\ op = "delete"
    /\ Done
    /\ Len(DeleteCalls) = 1
    /\ resp.status = 200
    /\ ~Returned
    /\ error.code = 500

\* the addresses of the shown server, in the order the loop walks them
ShownAddrs == AllAddrs(DictGet(srv.s, "addresses", JDict(<<>>)).items)
\* the floating ips the backend returned
ShownFloatingIps == GetItem(resp.body, "floating_ips").elems

\* C12: every address of the server gets a network link with a defined
\* target: "fixed" for an address that is not floating, the floating prefix
\* joined with the pool of the floating ip of that address otherwise; a
\* floating address that matches no floating ip does not leave the target
\* undefined.
C12_NetworkTargetDefined ==
    (op = "show" /\ Done /\ log = <<>>) =>
        /\ error = NoError
        /\ result.type = "list"
        /\ Len(result.resources) = 1
        /\ LET links == result.resources[1].links
           IN /\ Len(links) = Len(ShownAddrs)
              /\ \A n \in 1..Len(links) :
                   /\ links[n].kind = "networkinterface"
                   /\ links[n].address = GetItem(ShownAddrs[n], "addr")
                   /\ IF GetItem(ShownAddrs[n], "OS-EXT-IPS:type")
                           = JStr("floating")
                      THEN \E f \in 1..Len(ShownFloatingIps) :
                             /\ GetItem(ShownFloatingIps[f], "ip")
                                  = GetItem(ShownAddrs[n], "addr")
                             /\ links[n].target =
                                  JStr(FLOATING_PREFIX \o "/" \o
                                       GetItem(ShownFloatingIps[f], "pool").s)
                      ELSE links[n].target = JStr("fixed")

\* the body the backend expects for an action
ExpectedActionBody(action) ==
    CASE action = "stop" -> JDict(<<Item("os-stop", JNull)>>)
      [] action = "start" -> JDict(<<Item("os-start", JNull)>>)
      [] action = "restart" ->
            JDict(<<Item("reboot", JDict(<<Item("type", JStr("SOFT"))>>))>>)
      [] OTHER -> JNull

\* every run_action call is for stop, start or restart, with its body, and
\* the lookup in actions_map never fails
OnlyMappedActionsCalled ==
    /\ \A n \in 1..Len(log) :
         IsRunActionCall(log[n]) =>
            /\ req.action.s \in {"stop", "start", "restart"}
            /\ log[n].request.method = "POST"
            /\ log[n].request.path
                 = <<req.tenant, "servers", req.id.s, "action">>
            /\ log[n].request.body = ExpectedActionBody(req.action.s)
    /\ error.cls # "KeyError"

\* the request names a compute action that is not stop, start or restart
OtherComputeAction ==
    /\ op = "run_action"
    /\ req.action # JNull
    /\ req.action.s \in ComputeActions \ {"stop", "start", "restart"}

\* C13 as stated: only stop, start and restart reach the helper's run_action,
\* with the matching body; any other compute action ends in NotImplemented
\* with no validation and no backend call.
C13_Original ==
    op = "run_action" =>
        /\ OnlyMappedActionsCalled
        /\ (OtherComputeAction /\ Done) =>
              /\ error = PyError("NotImplemented")
              /\ \A n \in 1..Len(log) : log[n].ev = "parse"
              /\ ~Returned

\* C13 amended: as stated, but the other compute action ends in NotImplemented
\* once its body has parsed; a body the parser rejects ends in the parser's
\* error first.  Either way nothing is validated and nothing is sent.
C13_OnlyMappedActionsReachHelper ==
    op = "run_action" =>
        /\ OnlyMappedActionsCalled
        /\ (OtherComputeAction /\ pc \notin {"start", "parse", "scheme"}) =>
              /\ Done
              /\ error = IF req.rep.wellformed
                         THEN PyError("NotImplemented")
                         ELSE PyError("MalformedRepresentation")
              /\ log = <<ParseEv>>
              /\ ~Returned

C13_Witness ==
    /\ OtherComputeAction
    /\ req.action = JStr("suspend")
    /\ req.rep.wellformed
    /\ Done
    /\ error = PyError("NotImplemented")
    /\ log = <<ParseEv>>

====
